---- MODULE Spec2Model ----
(***************************************************************************)
(* A model of frozendictx/_frozendict.py: FrozendictBase (an immutable     *)
(* mapping over a private dict) and frozendict (its hash-caching           *)
(* subclass).                                                              *)
(*                                                                         *)
(* Objects live in heaps and are named by their index:                     *)
(*   dicts  the dict objects (caller-owned dicts and every _source),       *)
(*          each an insertion-ordered sequence of <<key, value>> pairs     *)
(*          with unique keys;                                              *)
(*   lists  the list objects (the unhashable, mutable values), each        *)
(*          reduced to one integer of content;                             *)
(*   inst   the FrozendictBase / frozendict instances.                     *)
(* A value is an int (hashable, compared by value) or a reference to a     *)
(* list (unhashable, compared by content).                                 *)
(***************************************************************************)
EXTENDS Integers, Sequences, FiniteSets, TLC

VARIABLES
    dicts,   \* heap of dict objects
    ext,     \* the dicts the caller owns and may mutate at any time
    lists,   \* heap of list objects
    inst,    \* the instances: [cls, source, hash]
    born,    \* history: each instance's items right after construction
    first,   \* history: each instance's first hash() outcome
    ret,     \* the last call and what it returned
    args,    \* the arguments of a constructor call (SpecNew)
    pc,      \* each thread's place in __hash__ / __deepcopy__ (SpecConc)
    loc,     \* each thread's computed, not yet stored, hash value
    tret     \* what each thread's call returned

vars == <<dicts, ext, lists, inst, born, first, ret, args, pc, loc, tret>>

(***************************************************************************)
(* Bounds of the model.                                                    *)
(***************************************************************************)
MaxInst == 2
MaxKeySeq == 2
MaxThreads == 2
MaxPairs == 3
HashBits == 6

\* What the drawn inputs of SpecNew and SpecPure are made of.
Keys == {"a", "b"}
HashableVals == {1, 2}
\* What the caller of Spec and SpecConc works with.
CallerKeys == {"a"}
CallerInts == {1}
ListContents == {0, 1}
HashMod == 2 ^ HashBits

IntVal(n) == [t |-> "int", x |-> n]
ListRef(l) == [t |-> "list", x |-> l]

(***************************************************************************)
(* dict: the builtin the class stores its entries in.                      *)
(***************************************************************************)
RECURSIVE IndexOf(_, _, _)
IndexOf(d, k, i) ==
    IF i > Len(d) THEN 0
    ELSE IF d[i][1] = k THEN i ELSE IndexOf(d, k, i + 1)

dict_contains(d, k) == IndexOf(d, k, 1) # 0

dict_getitem(d, k) == d[IndexOf(d, k, 1)][2]

dict_keys(d) == [i \in 1..Len(d) |-> d[i][1]]

dict_values(d) == [i \in 1..Len(d) |-> d[i][2]]

KeySet(d) == {d[i][1] : i \in 1..Len(d)}

\* Variant of dict_setitem: the first value of a key is kept (setdefault).
dict_setitem_first_wins(d, k, v) ==
    IF dict_contains(d, k) THEN d ELSE Append(d, <<k, v>>)

\* d[k] = v: an existing key keeps its place, a new key goes last.
dict_setitem(d, k, v) ==
    IF dict_contains(d, k)
    THEN [d EXCEPT ![IndexOf(d, k, 1)] = <<k, v>>]
    ELSE Append(d, <<k, v>>)

\* del d[k]
dict_delitem(d, k) ==
    LET p == IndexOf(d, k, 1)
    IN  [i \in 1..(Len(d) - 1) |-> IF i < p THEN d[i] ELSE d[i + 1]]

\* d.update(pairs): the pairs in their order, each a d[k] = v.
RECURSIVE dict_update(_, _)
dict_update(d, pairs) ==
    IF pairs = <<>> THEN d
    ELSE dict_update(dict_setitem(d, Head(pairs)[1], Head(pairs)[2]), Tail(pairs))

\* What dict() reads from an object with keys() and __getitem__:
\* <<k, obj[k]>> for k in obj.keys().
mapping_pairs(d) == [i \in 1..Len(d) |-> <<dict_keys(d)[i], dict_getitem(d, dict_keys(d)[i])>>]

(***************************************************************************)
(* Equality of values and of dicts, as Python's == computes them: ints by  *)
(* value, lists by content, dicts by key set and per-key value equality    *)
(* (insertion order plays no part).                                        *)
(***************************************************************************)
value_eq(v, w) ==
    IF v.t # w.t THEN FALSE
    ELSE IF v.t = "int" THEN v.x = w.x
    ELSE lists[v.x] = lists[w.x]

dict_eq(d, e) ==
    /\ Len(d) = Len(e)
    /\ \A i \in 1..Len(d) :
          /\ dict_contains(e, d[i][1])
          /\ value_eq(d[i][2], dict_getitem(e, d[i][1]))

(***************************************************************************)
(* Text, as sequences of characters, so that slicing is slicing.           *)
(***************************************************************************)
UnhashablePrefix ==
    <<"u", "n", "h", "a", "s", "h", "a", "b", "l", "e", " ",
      "t", "y", "p", "e", ":", " ">>

TypeName_list == <<"l", "i", "s", "t">>

\* repr() of a str: the text in single quotes.
str_repr(s) == <<"'">> \o s \o <<"'">>

\* The message of the TypeError that hash() raises on a list.
builtin_unhashable_msg == UnhashablePrefix \o str_repr(TypeName_list)

\* s[SliceStart:-1]
SliceStart == 18

slice_from_to_last(s) == SubSeq(s, SliceStart + 1, Len(s) - 1)

(***************************************************************************)
(* hash().  Hashes are HashBits wide.  hash(int) is the int; the hash of   *)
(* a key (a str) is some fixed number; the hash of a tuple depends on the  *)
(* order of its parts; the hash of a frozenset combines the shuffled       *)
(* hashes of its elements commutatively, then mixes in the size.           *)
(***************************************************************************)
key_hash(k) == IF k = "a" THEN 11 ELSE 23

hashable(v) == v.t = "int"

value_hash(v) == v.x % HashMod

tuple_hash(k, v) == (key_hash(k) * 31 + value_hash(v) * 7 + 3) % HashMod

shuffle_bits(h) == (h * 13 + 5) % HashMod

RECURSIVE frozenset_hash_loop(_, _)
frozenset_hash_loop(items, h) ==
    IF items = <<>> THEN h
    ELSE frozenset_hash_loop(Tail(items),
             (h + shuffle_bits(tuple_hash(Head(items)[1], Head(items)[2]))) % HashMod)

\* Variant of frozenset_hash: the item hashes are combined in iteration order.
RECURSIVE frozenset_hash_ordered_loop(_, _)
frozenset_hash_ordered_loop(items, h) ==
    IF items = <<>> THEN h
    ELSE frozenset_hash_ordered_loop(Tail(items),
             (h * 31 + shuffle_bits(tuple_hash(Head(items)[1], Head(items)[2]))) % HashMod)

frozenset_hash_ordered(items) ==
    (frozenset_hash_ordered_loop(items, 0) * 3 + Len(items)) % HashMod

frozenset_hash(items) == (frozenset_hash_loop(items, 0) * 3 + Len(items)) % HashMod

\* hash(frozenset(m.items())): [raised, value, msg].  Building the frozenset
\* hashes every item, so one unhashable value raises TypeError.
mapping_hash(m) ==
    IF \A i \in 1..Len(m) : hashable(m[i][2])
    THEN [raised |-> FALSE, value |-> frozenset_hash(m), msg |-> <<>>]
    ELSE [raised |-> TRUE, value |-> 0, msg |-> builtin_unhashable_msg]

\* The _hash slot: None, an int, or a str.
None == [tag |-> "None", int |-> 0, str |-> <<>>]
CachedInt(h) == [tag |-> "int", int |-> h, str |-> <<>>]
CachedStr(s) == [tag |-> "str", int |-> 0, str |-> s]

get_hash_value_or_unhashable_type(mapping) ==
    LET r == mapping_hash(mapping)
    IN  IF r.raised THEN CachedStr(slice_from_to_last(r.msg))
        ELSE CachedInt(r.value)

\* What __hash__ hands back for a populated slot: the int, or the TypeError.
hash_outcome(h) ==
    IF h.tag = "int"
    THEN [kind |-> "int", val |-> h.int, msg |-> <<>>]
    ELSE [kind |-> "TypeError", val |-> 0, msg |-> UnhashablePrefix \o str_repr(h.str)]

(***************************************************************************)
(* Objects a call can be handed.  An operand is [kind, id]:                *)
(*   "inst"  an instance (FrozendictBase is registered as a Mapping);      *)
(*   "dict"  a dict of the caller's (a Mapping);                           *)
(*   "duck"  an object with keys() and __getitem__ over a dict of the      *)
(*           caller's, of a class that is no Mapping                       *)
(*           (SupportsKeysAndGetItem and nothing more);                    *)
(*   "int"   an int: no mapping at all.                                    *)
(***************************************************************************)
Operand(kind, id) == [kind |-> kind, id |-> id]

NoOperand == Operand("none", 0)

Operands ==
    {Operand("inst", i) : i \in 1..Len(inst)}
    \cup {Operand("dict", d) : d \in ext}
    \cup {Operand("duck", d) : d \in ext}
    \cup {Operand("int", 0)}

SupportsKeysAndGetItem(o) == o.kind \in {"inst", "dict", "duck"}

isinstance_Mapping(o) == o.kind \in {"inst", "dict"}

isinstance_FrozendictBase(o) == o.kind = "inst"

\* The dict behind an operand that has one.
operand_dict(o) == IF o.kind = "inst" THEN dicts[inst[o.id].source] ELSE dicts[o.id]

\* What the constructor is given to read: a mapping-like object or an
\* iterable of pairs.
Source(kind, id, pairs) == [kind |-> kind, id |-> id, pairs |-> pairs]

PairsSource(pairs) == Source("pairs", 0, pairs)

OperandSource(o) == Source(o.kind, o.id, <<>>)

\* The pairs dict() reads from a source.
source_pairs(src) ==
    IF src.kind = "pairs" THEN src.pairs
    ELSE mapping_pairs(operand_dict(src))

\* dict(iterable, **kwargs)
dict_new(pairs, kwargs) == dict_update(dict_update(<<>>, pairs), kwargs)

\* self._source = dict(iterable, **kwargs): a new dict object on the heap.
\* Variant of new_source: a dict given without kwargs is kept, not copied.
new_source_alias(src, kwargs) ==
    IF src.kind = "dict" /\ kwargs = <<>>
    THEN [heap |-> dicts, id |-> src.id]
    ELSE [heap |-> Append(dicts, dict_new(source_pairs(src), kwargs)),
          id |-> Len(dicts) + 1]

new_source(src, kwargs) ==
    [heap |-> Append(dicts, dict_new(source_pairs(src), kwargs)),
     id |-> Len(dicts) + 1]

\* FrozendictBase has no _hash slot.
NoSlot == [tag |-> "absent", int |-> 0, str |-> <<>>]

\* Variant of frozendict_new_hash: the slot starts as the int 0.
frozendict_new_hash_zero == CachedInt(0)

\* frozendict.__new__: self._hash = None
frozendict_new_hash == None

\* cls.__new__(cls, iterable, **kwargs): FrozendictBase.__new__, and for
\* frozendict the _hash slot on top of it.  The new instance is the last.
Construct(cls, src, kwargs) ==
    LET ns == new_source(src, kwargs)
    IN  /\ dicts' = ns.heap
        /\ inst' = Append(inst, [cls |-> cls, source |-> ns.id,
                                  hash |-> IF cls = "frozendict"
                                           THEN frozendict_new_hash ELSE NoSlot])
        /\ born' = Append(born, ns.heap[ns.id])
        /\ first' = Append(first, None)

Classes == {"FrozendictBase", "frozendict"}

Return(op, self, other, kind, val) ==
    [op |-> op, self |-> self, other |-> other, kind |-> kind, val |-> val]

\* The values at the caller's hands in Spec: its ints and the lists alive.
Values == {IntVal(n) : n \in CallerInts} \cup {ListRef(l) : l \in 1..Len(lists)}

\* The sequences of at most n elements of S.
SeqsUpTo(S, n) == UNION {[1..m -> S] : m \in 0..n}

CallerPairs == {<<k, v>> : k \in CallerKeys, v \in Values}

\* Named entries: at most one here, keys are strs.
KwInputs == SeqsUpTo(CallerPairs, 1)

MappingOperands == {o \in Operands : SupportsKeysAndGetItem(o)}

Sources ==
    {PairsSource(p) : p \in SeqsUpTo(CallerPairs, 1)}
    \cup {OperandSource(o) : o \in MappingOperands}

NoReturn == Return("none", 0, NoOperand, "none", 0)

\* The caller is between two calls: the last result has been let go.
Ready == ret = NoReturn

Idle == UNCHANGED <<ext, args, pc, loc, tret>>

(***************************************************************************)
(* The calls, one action each.                                             *)
(***************************************************************************)
new(cls, src, kwargs) ==
    /\ Len(inst) < MaxInst
    /\ Construct(cls, src, kwargs)
    /\ ret' = Return("new", 0, Operand(src.kind, src.id), "inst", Len(inst) + 1)
    /\ UNCHANGED lists
    /\ Idle

\* The sequences of keys fromkeys is handed.
KeySeqs == SeqsUpTo(CallerKeys, MaxKeySeq)

\* cls((k, value) for k in iterable)
fromkeys(cls, iterable, value) ==
    /\ Len(inst) < MaxInst
    /\ Construct(cls, PairsSource([j \in 1..Len(iterable) |-> <<iterable[j], value>>]), <<>>)
    /\ ret' = Return("fromkeys", 0, Operand(cls, 0), "inst", Len(inst) + 1)
    /\ UNCHANGED lists
    /\ Idle

Source_of(i) == dicts[inst[i].source]

Frame == UNCHANGED <<dicts, lists, inst, born, first>>

\* self._source[item]
getitem(i, item) ==
    /\ ret' = IF dict_contains(Source_of(i), item)
               THEN Return("getitem", i, NoOperand, "value", dict_getitem(Source_of(i), item))
               ELSE Return("getitem", i, NoOperand, "KeyError", item)
    /\ Frame /\ Idle

\* self._source.get(key, default)
get(i, key, default) ==
    /\ ret' = Return("get", i, NoOperand, "value",
                      IF dict_contains(Source_of(i), key)
                      THEN dict_getitem(Source_of(i), key) ELSE default)
    /\ Frame /\ Idle

\* The views read the dict they were taken from; they offer no mutation.
keys(i) ==
    /\ ret' = Return("keys", i, NoOperand, "view", dict_keys(Source_of(i)))
    /\ Frame /\ Idle

values(i) ==
    /\ ret' = Return("values", i, NoOperand, "view", dict_values(Source_of(i)))
    /\ Frame /\ Idle

items(i) ==
    /\ ret' = Return("items", i, NoOperand, "view", Source_of(i))
    /\ Frame /\ Idle

\* return self
copy(i) ==
    /\ ret' = Return("copy", i, NoOperand, "inst", i)
    /\ Frame /\ Idle

\* str(self._source)
str(i) ==
    /\ ret' = Return("str", i, NoOperand, "text", <<Source_of(i)>>)
    /\ Frame /\ Idle

\* ClassName() when empty, else ClassName(<the dict>)
repr(i) ==
    /\ ret' = Return("repr", i, NoOperand, "text",
                      IF Len(Source_of(i)) = 0 THEN <<inst[i].cls, "(", ")">>
                      ELSE <<inst[i].cls, "(", Source_of(i), ")">>)
    /\ Frame /\ Idle

len(i) ==
    /\ ret' = Return("len", i, NoOperand, "int", Len(Source_of(i)))
    /\ Frame /\ Idle

contains(i, item) ==
    /\ ret' = Return("contains", i, NoOperand, "bool", dict_contains(Source_of(i), item))
    /\ Frame /\ Idle

iter(i) ==
    /\ ret' = Return("iter", i, NoOperand, "iterator", dict_keys(Source_of(i)))
    /\ Frame /\ Idle

reversed(i) ==
    /\ ret' = Return("reversed", i, NoOperand, "iterator",
                      [j \in 1..Len(Source_of(i)) |-> dict_keys(Source_of(i))[Len(Source_of(i)) + 1 - j]])
    /\ Frame /\ Idle

\* The parts of the size, left symbolic: which objects are measured and
\* whether each measure includes the collector's overhead.
sizeof(i, gc_self, gc_inner) ==
    /\ ret' = Return("sizeof", i, NoOperand, "size",
                      <<IF gc_self THEN "getsizeof(self)" ELSE "self.__sizeof__()",
                        IF gc_inner THEN "getsizeof(_source)" ELSE "_source.__sizeof__()",
                        Len(Source_of(i))>>)
    /\ Frame /\ Idle

\* return self._source,
getnewargs(i) ==
    /\ ret' = Return("getnewargs", i, NoOperand, "args", inst[i].source)
    /\ Frame /\ Idle

\* chain(a.items(), b.items())
chain(a, b) == a \o b

\* Variant of or_pairs: the operands are chained the other way round.
or_pairs_swapped(i, other) == chain(operand_dict(other), Source_of(i))

or_pairs(i, other) == chain(Source_of(i), operand_dict(other))

ror_pairs(i, other) == chain(operand_dict(other), Source_of(i))

\* Variant of or: self._source.update(other); return self.
or_in_place(i, other) ==
    /\ IF isinstance_Mapping(other)
       THEN /\ dicts' = [dicts EXCEPT ![inst[i].source] = dict_update(@, operand_dict(other))]
            /\ ret' = Return("or", i, other, "inst", i)
       ELSE /\ ret' = Return("or", i, other, "NotImplemented", 0)
            /\ UNCHANGED dicts
    /\ UNCHANGED <<lists, inst, born, first>>
    /\ Idle

or(i, other) ==
    /\ IF isinstance_Mapping(other)
       THEN /\ Len(inst) < MaxInst
            /\ Construct(inst[i].cls, PairsSource(or_pairs(i, other)), <<>>)
            /\ ret' = Return("or", i, other, "inst", Len(inst) + 1)
       ELSE /\ ret' = Return("or", i, other, "NotImplemented", 0)
            /\ UNCHANGED <<dicts, inst, born, first>>
    /\ UNCHANGED lists
    /\ Idle

ror(i, other) ==
    /\ IF isinstance_Mapping(other)
       THEN /\ Len(inst) < MaxInst
            /\ Construct(inst[i].cls, PairsSource(ror_pairs(i, other)), <<>>)
            /\ ret' = Return("ror", i, other, "inst", Len(inst) + 1)
       ELSE /\ ret' = Return("ror", i, other, "NotImplemented", 0)
            /\ UNCHANGED <<dicts, inst, born, first>>
    /\ UNCHANGED lists
    /\ Idle

\* Variant of eq: without the isinstance(other, Mapping) branch.
eq_frozendicts_only(i, other) ==
    /\ ret' = IF isinstance_FrozendictBase(other)
               THEN Return("eq", i, other, "bool", dict_eq(Source_of(i), operand_dict(other)))
               ELSE Return("eq", i, other, "NotImplemented", 0)
    /\ Frame /\ Idle

eq(i, other) ==
    /\ ret' = IF isinstance_FrozendictBase(other)
               THEN Return("eq", i, other, "bool", dict_eq(Source_of(i), operand_dict(other)))
               ELSE IF isinstance_Mapping(other)
               THEN Return("eq", i, other, "bool", dict_eq(operand_dict(other), Source_of(i)))
               ELSE Return("eq", i, other, "NotImplemented", 0)
    /\ Frame /\ Idle

ne(i, other) ==
    /\ ret' = IF isinstance_FrozendictBase(other)
               THEN Return("ne", i, other, "bool", ~dict_eq(Source_of(i), operand_dict(other)))
               ELSE IF isinstance_Mapping(other)
               THEN Return("ne", i, other, "bool", ~dict_eq(operand_dict(other), Source_of(i)))
               ELSE Return("ne", i, other, "NotImplemented", 0)
    /\ Frame /\ Idle

(***************************************************************************)
(* deepcopy(self._source, memo), with the empty memo copy.deepcopy starts  *)
(* from: every list reached gets one new list object of equal content      *)
(* (one per list, however often it occurs), ints are returned as they are. *)
(***************************************************************************)
list_refs(d) == {d[j][2].x : j \in {n \in 1..Len(d) : d[n][2].t = "list"}}

\* The new object of list l: the new lists follow the old ones, in id order.
copy_id(refs, l) == Len(lists) + Cardinality({r \in refs : r <= l})

deepcopy_value(refs, v) == IF v.t = "list" THEN ListRef(copy_id(refs, v.x)) ELSE v

\* Variant of deepcopy_dict: copy(self._source), the values are shared.
deepcopy_dict_shallow(d) == d

deepcopy_dict(d) == [j \in 1..Len(d) |-> <<d[j][1], deepcopy_value(list_refs(d), d[j][2])>>]

deepcopy_lists(d) ==
    lists \o [n \in 1..Cardinality(list_refs(d)) |->
                lists[CHOOSE r \in list_refs(d) : copy_id(list_refs(d), r) = Len(lists) + n]]

\* return self.__class__(deepcopy(self._source, memo))
DeepCopyNew(op, i) ==
    /\ Len(inst) < MaxInst
    /\ lists' = deepcopy_lists(Source_of(i))
    /\ Construct(inst[i].cls, PairsSource(deepcopy_dict(Source_of(i))), <<>>)
    /\ ret' = Return(op, i, NoOperand, "inst", Len(inst) + 1)

Base_deepcopy(i) ==
    /\ inst[i].cls = "FrozendictBase"
    /\ DeepCopyNew("deepcopy", i)
    /\ Idle

\* Variant of frozendict_hash: a stored type name is sliced again on each call.
frozendict_hash_reslice(i) ==
    /\ inst[i].cls = "frozendict"
    /\ LET h == IF inst[i].hash = None
                 THEN get_hash_value_or_unhashable_type(Source_of(i))
                 ELSE IF inst[i].hash.tag = "str"
                 THEN CachedStr(slice_from_to_last(inst[i].hash.str))
                 ELSE inst[i].hash
       IN  /\ inst' = [inst EXCEPT ![i].hash = h]
           /\ ret' = Return("hash", i, NoOperand, hash_outcome(h).kind, hash_outcome(h))
           /\ first' = IF first[i] = None THEN [first EXCEPT ![i] = h] ELSE first
    /\ UNCHANGED <<dicts, lists, born>>
    /\ Idle

frozendict_hash(i) ==
    /\ inst[i].cls = "frozendict"
    /\ LET h == IF inst[i].hash = None
                 THEN get_hash_value_or_unhashable_type(Source_of(i))
                 ELSE inst[i].hash
       IN  /\ inst' = [inst EXCEPT ![i].hash = h]
           /\ ret' = Return("hash", i, NoOperand, hash_outcome(h).kind, hash_outcome(h))
           /\ first' = IF first[i] = None THEN [first EXCEPT ![i] = h] ELSE first
    /\ UNCHANGED <<dicts, lists, born>>
    /\ Idle

frozendict_deepcopy(i) ==
    /\ inst[i].cls = "frozendict"
    /\ LET h == IF inst[i].hash = None
                 THEN get_hash_value_or_unhashable_type(Source_of(i))
                 ELSE inst[i].hash
       IN  IF h.tag = "int"
           THEN /\ inst' = [inst EXCEPT ![i].hash = h]
                /\ ret' = Return("deepcopy", i, NoOperand, "inst", i)
                /\ UNCHANGED <<dicts, lists, born, first>>
           ELSE /\ Len(inst) < MaxInst
                /\ lists' = deepcopy_lists(Source_of(i))
                /\ LET ns == new_source(PairsSource(deepcopy_dict(Source_of(i))), <<>>)
                   IN  /\ dicts' = ns.heap
                       /\ inst' = Append([inst EXCEPT ![i].hash = h],
                                          [cls |-> inst[i].cls, source |-> ns.id,
                                           hash |-> frozendict_new_hash])
                       /\ born' = Append(born, ns.heap[ns.id])
                       /\ first' = Append(first, None)
                /\ ret' = Return("deepcopy", i, NoOperand, "inst", Len(inst) + 1)
    /\ Idle

(***************************************************************************)
(* The caller's own objects change under the caller's hands.               *)
(***************************************************************************)
caller_setitem(d, k, v) ==
    /\ dicts' = [dicts EXCEPT ![d] = dict_setitem(dicts[d], k, v)]
    /\ ret' = Return("caller_setitem", 0, Operand("dict", d), "none", 0)
    /\ UNCHANGED <<lists, inst, born, first>>
    /\ Idle

caller_delitem(d, k) ==
    /\ dict_contains(dicts[d], k)
    /\ dicts' = [dicts EXCEPT ![d] = dict_delitem(dicts[d], k)]
    /\ ret' = Return("caller_delitem", 0, Operand("dict", d), "none", 0)
    /\ UNCHANGED <<lists, inst, born, first>>
    /\ Idle

caller_list_mutate(l, c) ==
    /\ lists[l] # c
    /\ lists' = [lists EXCEPT ![l] = c]
    /\ ret' = Return("caller_list_mutate", 0, Operand("list", l), "none", 0)
    /\ UNCHANGED <<dicts, inst, born, first>>
    /\ Idle

\* The caller lets go of what the last call returned.
drop_result ==
    /\ ret # NoReturn
    /\ ret' = NoReturn
    /\ Frame /\ Idle

\* The caller never bound what the last call built: with the result the
\* new instance goes too, and its dict with it.
caller_release ==
    /\ ret.kind = "inst"
    /\ ret.op \in {"new", "fromkeys", "or", "ror"}
    /\ ret' = NoReturn
    /\ inst' = SubSeq(inst, 1, Len(inst) - 1)
    /\ born' = SubSeq(born, 1, Len(born) - 1)
    /\ first' = SubSeq(first, 1, Len(first) - 1)
    /\ dicts' = IF inst[Len(inst)].source \in ext THEN dicts
                ELSE SubSeq(dicts, 1, Len(dicts) - 1)
    /\ UNCHANGED lists
    /\ Idle

(***************************************************************************)
(* Spec: one caller, one thread, every operation of both classes, on       *)
(* instances it builds from its own dict, from short literals and from     *)
(* each other.                                                             *)
(***************************************************************************)
Init ==
    /\ dicts = <<<<>>>>
    /\ ext = {1}
    /\ lists = <<0>>
    /\ inst = <<>>
    /\ born = <<>>
    /\ first = <<>>
    /\ ret = NoReturn
    /\ args = <<>>
    /\ pc = <<>>
    /\ loc = <<>>
    /\ tret = <<>>

Next ==
    \/ \E cls \in Classes, src \in Sources, kwargs \in KwInputs : Ready /\ new(cls, src, kwargs)
    \/ \E cls \in Classes, ks \in KeySeqs, v \in Values : Ready /\ fromkeys(cls, ks, v)
    \/ \E i \in 1..Len(inst), k \in CallerKeys : Ready /\ getitem(i, k)
    \/ \E i \in 1..Len(inst), k \in CallerKeys, default \in Values : Ready /\ get(i, k, default)
    \/ \E i \in 1..Len(inst) : Ready /\ keys(i)
    \/ \E i \in 1..Len(inst) : Ready /\ values(i)
    \/ \E i \in 1..Len(inst) : Ready /\ items(i)
    \/ \E i \in 1..Len(inst) : Ready /\ copy(i)
    \/ \E i \in 1..Len(inst) : Ready /\ Base_deepcopy(i)
    \/ \E i \in 1..Len(inst) : Ready /\ str(i)
    \/ \E i \in 1..Len(inst) : Ready /\ repr(i)
    \/ \E i \in 1..Len(inst) : Ready /\ len(i)
    \/ \E i \in 1..Len(inst), k \in CallerKeys : Ready /\ contains(i, k)
    \/ \E i \in 1..Len(inst) : Ready /\ iter(i)
    \/ \E i \in 1..Len(inst) : Ready /\ reversed(i)
    \/ \E i \in 1..Len(inst), o \in Operands : Ready /\ or(i, o)
    \/ \E i \in 1..Len(inst), o \in Operands : Ready /\ ror(i, o)
    \/ \E i \in 1..Len(inst), o \in Operands : Ready /\ eq(i, o)
    \/ \E i \in 1..Len(inst), o \in Operands : Ready /\ ne(i, o)
    \/ \E i \in 1..Len(inst), gc_self \in BOOLEAN, gc_inner \in BOOLEAN : Ready /\ sizeof(i, gc_self, gc_inner)
    \/ \E i \in 1..Len(inst) : Ready /\ getnewargs(i)
    \/ \E i \in 1..Len(inst) : Ready /\ frozendict_hash(i)
    \/ \E i \in 1..Len(inst) : Ready /\ frozendict_deepcopy(i)
    \/ \E d \in ext, k \in CallerKeys, n \in CallerInts : Ready /\ caller_setitem(d, k, IntVal(n))
    \/ \E d \in ext, k \in CallerKeys : Ready /\ caller_delitem(d, k)
    \/ \E l \in 1..Len(lists), c \in ListContents : Ready /\ caller_list_mutate(l, c)
    \/ drop_result

Spec == Init /\ [][Next]_vars

(***************************************************************************)
(* Drawn inputs: pairs over two keys and two ints, and dicts of them.      *)
(***************************************************************************)
InputPairs == {<<k, IntVal(n)>> : k \in Keys, n \in HashableVals}

InputPairSeqs == SeqsUpTo(InputPairs, MaxPairs)

\* The dicts over Keys: sequences of pairs whose keys differ.
InputDicts ==
    {p \in SeqsUpTo(InputPairs, Cardinality(Keys)) :
        \A m, n \in 1..Len(p) : m # n => p[m][1] # p[n][1]}

\* A frozendict as cls(source) leaves it.
Built(cls, source) ==
    [cls |-> cls, source |-> source,
     hash |-> IF cls = "frozendict" THEN frozendict_new_hash ELSE NoSlot]

(***************************************************************************)
(* SpecNew: one constructor call on drawn arguments: a sequence of pairs   *)
(* or the caller's dict (as a dict, or behind keys() and __getitem__),     *)
(* with named entries; or fromkeys on the keys of the pairs.               *)
(***************************************************************************)
InitNew ==
    /\ args \in [cls : Classes, pairs : InputPairSeqs,
                  kwargs : SeqsUpTo(InputPairs, 1), value : HashableVals]
    /\ dicts \in {<<d>> : d \in {p \in InputDicts : Len(p) <= 1}}
    /\ ext = {1}
    /\ lists = <<>>
    /\ inst = <<>>
    /\ born = <<>>
    /\ first = <<>>
    /\ ret = NoReturn
    /\ pc = <<>>
    /\ loc = <<>>
    /\ tret = <<>>

NextNew ==
    \/ Ready /\ new(args.cls, PairsSource(args.pairs), args.kwargs)
    \/ \E o \in MappingOperands : Ready /\ new(args.cls, OperandSource(o), args.kwargs)
    \/ Ready /\ fromkeys(args.cls, [j \in 1..Len(args.pairs) |-> args.pairs[j][1]], IntVal(args.value))
    \/ caller_release

SpecNew == InitNew /\ [][NextNew]_vars

(***************************************************************************)
(* SpecUnion: an instance built from a drawn dict, in union with the       *)
(* caller's drawn dict, with itself and with what is no Mapping.           *)
(***************************************************************************)
InitUnion ==
    /\ \E d1 \in InputDicts, d2 \in InputDicts :
          dicts = <<d2, dict_new(d1, <<>>)>>
    /\ ext = {1}
    /\ lists = <<>>
    /\ inst \in {<<Built(cls, 2)>> : cls \in Classes}
    /\ born = <<dicts[2]>>
    /\ first = <<None>>
    /\ ret = NoReturn
    /\ args = <<>>
    /\ pc = <<>>
    /\ loc = <<>>
    /\ tret = <<>>

NextUnion ==
    \/ \E i \in 1..Len(inst), o \in Operands : Ready /\ or(i, o)
    \/ \E i \in 1..Len(inst), o \in Operands : Ready /\ ror(i, o)
    \/ caller_release
    \/ drop_result

SpecUnion == InitUnion /\ [][NextUnion]_vars

(***************************************************************************)
(* SpecHash: two frozendicts built from two drawn sequences of pairs,      *)
(* hashed and compared.                                                    *)
(***************************************************************************)
InitHash ==
    /\ \E p1 \in InputPairSeqs, p2 \in InputPairSeqs :
          dicts = <<dict_new(p1, <<>>), dict_new(p2, <<>>)>>
    /\ ext = {}
    /\ lists = <<>>
    /\ inst = <<Built("frozendict", 1), Built("frozendict", 2)>>
    /\ born = dicts
    /\ first = <<None, None>>
    /\ ret = NoReturn
    /\ args = <<>>
    /\ pc = <<>>
    /\ loc = <<>>
    /\ tret = <<>>

NextHash ==
    \/ \E i \in 1..Len(inst) : Ready /\ frozendict_hash(i)
    \/ \E i \in 1..Len(inst) : Ready /\ frozendict_deepcopy(i)
    \/ \E i \in 1..Len(inst), o \in Operands : Ready /\ eq(i, o)
    \/ \E i \in 1..Len(inst), o \in Operands : Ready /\ ne(i, o)
    \/ drop_result

SpecHash == InitHash /\ [][NextHash]_vars

(***************************************************************************)
(* SpecConc: threads calling __hash__ and __deepcopy__ on shared           *)
(* frozendicts.  A thread can be switched out between any two bytecodes;   *)
(* each read and each write of the _hash slot is one step.                 *)
(***************************************************************************)
Threads == 1..MaxThreads

At(t, at) == pc[t].at = at

Goto(t, at, self) == pc' = [pc EXCEPT ![t] = [at |-> at, self |-> self]]

Self(t) == pc[t].self

ConcFrame == UNCHANGED <<dicts, ext, lists, born, first, ret, args>>

\* if self._hash is None:
hash_enter(t, i) ==
    /\ At(t, "idle")
    /\ inst[i].cls = "frozendict"
    /\ Goto(t, IF inst[i].hash = None THEN "hash_compute" ELSE "hash_test", i)
    /\ UNCHANGED <<inst, loc, tret>>
    /\ ConcFrame

\* get_hash_value_or_unhashable_type(self._source), not yet assigned
hash_compute(t) ==
    /\ At(t, "hash_compute")
    /\ loc' = [loc EXCEPT ![t] = get_hash_value_or_unhashable_type(Source_of(Self(t)))]
    /\ Goto(t, "hash_store", Self(t))
    /\ UNCHANGED <<inst, tret>>
    /\ ConcFrame

\* Variant of slot_store: self._hash += <the computed value> on an int slot.
slot_store_accumulate(old, computed) ==
    IF old.tag = "int" /\ computed.tag = "int"
    THEN CachedInt((old.int + computed.int) % HashMod) ELSE computed

\* What an assignment leaves in the slot.
slot_store(old, computed) == computed

\* self._hash = <the computed value>
hash_store(t) ==
    /\ At(t, "hash_store")
    /\ inst' = [inst EXCEPT ![Self(t)].hash = slot_store(@, loc[t])]
    /\ Goto(t, "hash_test", Self(t))
    /\ UNCHANGED <<loc, tret>>
    /\ ConcFrame

\* if isinstance(self._hash, int):
hash_test(t) ==
    /\ At(t, "hash_test")
    /\ Goto(t, IF inst[Self(t)].hash.tag = "int" THEN "hash_return" ELSE "hash_raise", Self(t))
    /\ UNCHANGED <<inst, loc, tret>>
    /\ ConcFrame

\* return self._hash
hash_return(t) ==
    /\ At(t, "hash_return")
    /\ tret' = [tret EXCEPT ![t] = Return("hash", Self(t), NoOperand, "value", inst[Self(t)].hash)]
    /\ Goto(t, "done", Self(t))
    /\ UNCHANGED <<inst, loc>>
    /\ ConcFrame

\* raise TypeError(f'unhashable type: {self._hash!r}')
hash_raise(t) ==
    /\ At(t, "hash_raise")
    /\ tret' = [tret EXCEPT ![t] = Return("hash", Self(t), NoOperand, "TypeError", inst[Self(t)].hash)]
    /\ Goto(t, "done", Self(t))
    /\ UNCHANGED <<inst, loc>>
    /\ ConcFrame

deepcopy_enter(t, i) ==
    /\ At(t, "idle")
    /\ inst[i].cls = "frozendict"
    /\ Goto(t, IF inst[i].hash = None THEN "deepcopy_compute" ELSE "deepcopy_test", i)
    /\ UNCHANGED <<inst, loc, tret>>
    /\ ConcFrame

deepcopy_compute(t) ==
    /\ At(t, "deepcopy_compute")
    /\ loc' = [loc EXCEPT ![t] = get_hash_value_or_unhashable_type(Source_of(Self(t)))]
    /\ Goto(t, "deepcopy_store", Self(t))
    /\ UNCHANGED <<inst, tret>>
    /\ ConcFrame

deepcopy_store(t) ==
    /\ At(t, "deepcopy_store")
    /\ inst' = [inst EXCEPT ![Self(t)].hash = slot_store(@, loc[t])]
    /\ Goto(t, "deepcopy_test", Self(t))
    /\ UNCHANGED <<loc, tret>>
    /\ ConcFrame

deepcopy_test(t) ==
    /\ At(t, "deepcopy_test")
    /\ Goto(t, IF inst[Self(t)].hash.tag = "int" THEN "deepcopy_self" ELSE "deepcopy_copy", Self(t))
    /\ UNCHANGED <<inst, loc, tret>>
    /\ ConcFrame

\* return self
deepcopy_self(t) ==
    /\ At(t, "deepcopy_self")
    /\ tret' = [tret EXCEPT ![t] = Return("deepcopy", Self(t), NoOperand, "inst", Self(t))]
    /\ Goto(t, "done", Self(t))
    /\ UNCHANGED <<inst, loc>>
    /\ ConcFrame

\* return self.__class__(deepcopy(self._source, memo))
deepcopy_copy(t) ==
    /\ At(t, "deepcopy_copy")
    /\ Len(inst) < MaxInst
    /\ lists' = deepcopy_lists(Source_of(Self(t)))
    /\ Construct(inst[Self(t)].cls, PairsSource(deepcopy_dict(Source_of(Self(t)))), <<>>)
    /\ tret' = [tret EXCEPT ![t] = Return("deepcopy", Self(t), NoOperand, "inst", Len(inst) + 1)]
    /\ Goto(t, "done", Self(t))
    /\ UNCHANGED <<ext, ret, args, loc>>

\* The dicts over Keys with an int or the list for values.
ConcDicts ==
    {p \in SeqsUpTo({<<k, v>> : k \in Keys, v \in {IntVal(n) : n \in CallerInts} \cup {ListRef(1)}},
                    Cardinality(Keys)) :
        \A m, n \in 1..Len(p) : m # n => p[m][1] # p[n][1]}

InitConc ==
    /\ dicts \in {<<dict_new(d, <<>>)>> : d \in ConcDicts}
    /\ ext = {}
    /\ lists = <<0>>
    /\ inst = <<Built("frozendict", Len(dicts))>>
    /\ born = dicts
    /\ first = <<None>>
    /\ ret = NoReturn
    /\ args = <<>>
    /\ pc = [t \in Threads |-> [at |-> "idle", self |-> 0]]
    /\ loc = [t \in Threads |-> None]
    /\ tret = [t \in Threads |-> NoReturn]

NextConc ==
    \/ \E t \in Threads, i \in 1..Len(inst) : hash_enter(t, i)
    \/ \E t \in Threads : hash_compute(t)
    \/ \E t \in Threads : hash_store(t)
    \/ \E t \in Threads : hash_test(t)
    \/ \E t \in Threads : hash_return(t)
    \/ \E t \in Threads : hash_raise(t)
    \/ \E t \in Threads, i \in 1..Len(inst) : deepcopy_enter(t, i)
    \/ \E t \in Threads : deepcopy_compute(t)
    \/ \E t \in Threads : deepcopy_store(t)
    \/ \E t \in Threads : deepcopy_test(t)
    \/ \E t \in Threads : deepcopy_self(t)
    \/ \E t \in Threads : deepcopy_copy(t)

SpecConc == InitConc /\ [][NextConc]_vars

(***************************************************************************)
(* The claims.                                                             *)
(***************************************************************************)

\* C1: no operation on an instance changes its entries: in every step the
\* dict of every instance is the one it was built with, holding the items
\* it held right after construction; a union or reflected union also
\* leaves the entries of its other operand as they were.
C1_Immutable ==
    [][/\ \A i \in 1..Len(inst) :
             /\ inst'[i].source = inst[i].source
             /\ dicts'[inst'[i].source] = born[i]
             /\ born'[i] = born[i]
       /\ (ret'.op \in {"or", "ror"} /\ ret'.other.kind \in {"dict", "duck"})
             => dicts'[ret'.other.id] = dicts[ret'.other.id]
       /\ (ret'.op \in {"or", "ror"} /\ ret'.other.kind = "inst")
             => dicts'[inst'[ret'.other.id].source] = born[ret'.other.id]]_vars

C1_Witness ==
    /\ ret.op \in {"or", "ror"}
    /\ ret.kind = "inst"
    /\ ret.other.kind = "dict"
    /\ Source_of(ret.val) # Source_of(ret.self)
    /\ Source_of(ret.self) = born[ret.self]
    /\ inst[ret.self].hash.tag = "int"

\* C2: two frozendicts that compare equal and are both hashable have the
\* same hash, whatever the order their entries were inserted in.
C2_HashConsistentWithEq ==
    \A i, j \in 1..Len(inst) :
        (/\ inst[i].hash.tag = "int"
         /\ inst[j].hash.tag = "int"
         /\ dict_eq(Source_of(i), Source_of(j)))
        => inst[i].hash.int = inst[j].hash.int

C2_Witness ==
    /\ Len(inst) = Cardinality({"m1", "m2"})
    /\ inst[Len(inst)].hash.tag = "int"
    /\ inst[Len(inst) - 1].hash.tag = "int"
    /\ Len(Source_of(Len(inst))) = Cardinality(Keys)
    /\ Source_of(Len(inst)) # Source_of(Len(inst) - 1)
    /\ ret.op = "eq" /\ ret.kind = "bool" /\ ret.val
    /\ ret.other.kind = "inst" /\ ret.other.id # ret.self

\* C3: a populated _hash slot is never written again, and every hash()
\* has the outcome of the instance's first hash(): the same int, or a
\* TypeError with the same message.
C3_CacheWriteOnce ==
    [][/\ \A i \in 1..Len(inst) :
             inst[i].hash.tag \in {"int", "str"} => inst'[i].hash = inst[i].hash
       /\ \A i \in 1..Len(inst) :
             (inst[i].hash = None /\ inst[i].cls = "frozendict")
                => inst'[i].hash.tag \in {"None", "int", "str"}
       /\ (ret'.op = "hash" /\ first[ret'.self] # None)
             => ret'.val = hash_outcome(first[ret'.self])
       /\ ret'.op = "hash"
             => /\ ret'.val = hash_outcome(inst'[ret'.self].hash)
                /\ inst'[ret'.self].hash # None
                /\ first'[ret'.self] = inst'[ret'.self].hash]_vars

C3_Witness ==
    /\ ret.op = "hash"
    /\ ret.kind = "TypeError"
    /\ ret.val.msg = builtin_unhashable_msg
    /\ inst[ret.self].hash = CachedStr(TypeName_list)
    /\ \E j \in 1..Len(inst) : inst[j].hash.tag = "int"

\* C4: for an instance m and another operand that is an instance of
\* Mapping, m | other and other | m return a new instance whose keys are
\* the keys of both; m | other takes a shared key's value from other,
\* other | m takes it from m.
C4_UnionOverride ==
    (ret.op \in {"or", "ror"} /\ isinstance_Mapping(ret.other)) =>
        /\ ret.kind = "inst"
        /\ ret.val # ret.self
        /\ LET m == Source_of(ret.self)
               o == operand_dict(ret.other)
               r == Source_of(ret.val)
               hi == IF ret.op = "or" THEN o ELSE m
               lo == IF ret.op = "or" THEN m ELSE o
           IN  /\ KeySet(r) = KeySet(m) \cup KeySet(o)
               /\ Len(r) = Cardinality(KeySet(r))
               /\ \A k \in KeySet(r) :
                     dict_getitem(r, k) = IF dict_contains(hi, k)
                                          THEN dict_getitem(hi, k)
                                          ELSE dict_getitem(lo, k)

C4_Witness ==
    /\ ret.op = "or"
    /\ ret.kind = "inst"
    /\ ret.other.kind = "dict"
    /\ \E k \in KeySet(Source_of(ret.self)) \cap KeySet(operand_dict(ret.other)) :
          /\ dict_getitem(Source_of(ret.self), k) # dict_getitem(operand_dict(ret.other), k)
          /\ dict_getitem(Source_of(ret.val), k) = dict_getitem(operand_dict(ret.other), k)
    /\ KeySet(Source_of(ret.self)) \ KeySet(operand_dict(ret.other)) # {}

\* C4 as stated: the same for every other operand that has keys() and
\* __getitem__, whatever its type.
C4_AsStated ==
    (ret.op \in {"or", "ror"} /\ SupportsKeysAndGetItem(ret.other)) =>
        /\ ret.kind = "inst"
        /\ ret.val # ret.self
        /\ KeySet(Source_of(ret.val)) = KeySet(Source_of(ret.self)) \cup KeySet(operand_dict(ret.other))
        /\ \A k \in KeySet(Source_of(ret.val)) :
              dict_getitem(Source_of(ret.val), k) =
                  IF ret.op = "or"
                  THEN IF dict_contains(operand_dict(ret.other), k)
                       THEN dict_getitem(operand_dict(ret.other), k)
                       ELSE dict_getitem(Source_of(ret.self), k)
                  ELSE IF dict_contains(Source_of(ret.self), k)
                       THEN dict_getitem(Source_of(ret.self), k)
                       ELSE dict_getitem(operand_dict(ret.other), k)

\* C6: ==, !=, | and the reflected | return NotImplemented exactly when
\* the other operand is not an instance of Mapping; for an instance of
\* Mapping == and != return a bool and the unions return a new instance.
\* An object that only has keys() and __getitem__ gets NotImplemented.
C6_DispatchOnMapping ==
    ret.op \in {"eq", "ne", "or", "ror"} =>
        /\ ret.kind = "NotImplemented" <=> ~isinstance_Mapping(ret.other)
        /\ ret.kind = IF ~isinstance_Mapping(ret.other) THEN "NotImplemented"
                      ELSE IF ret.op \in {"eq", "ne"} THEN "bool" ELSE "inst"
        /\ ret.other.kind = "duck" => ret.kind = "NotImplemented"

C6_Witness ==
    /\ ret.op = "eq"
    /\ ret.other.kind = "duck"
    /\ ret.kind = "NotImplemented"
    /\ dicts[ret.other.id] = Source_of(ret.self)
    /\ Source_of(ret.self) # <<>>

\* C6 as stated: NotImplemented exactly when the other operand lacks
\* keys() or __getitem__.
C6_AsStated ==
    ret.op \in {"eq", "ne", "or", "ror"} =>
        (ret.kind = "NotImplemented" <=> ~SupportsKeysAndGetItem(ret.other))

\* C7: | and the reflected | on a frozendict, and frozendict.fromkeys,
\* return a frozendict whose _hash is None, whatever the _hash of the
\* operands; a _hash that is set is the one computed from the instance's
\* own entries.
C7_FreshCache ==
    /\ (ret.op \in {"or", "ror"} /\ ret.kind = "inst" /\ inst[ret.self].cls = "frozendict")
          => /\ inst[ret.val].cls = "frozendict"
             /\ inst[ret.val].hash = None
    /\ (ret.op = "fromkeys" /\ ret.other.kind = "frozendict")
          => /\ inst[ret.val].cls = "frozendict"
             /\ inst[ret.val].hash = None
    /\ \A i \in 1..Len(inst) :
          (inst[i].cls = "frozendict" /\ inst[i].hash # None)
             => inst[i].hash = get_hash_value_or_unhashable_type(Source_of(i))

C7_Witness ==
    /\ ret.op = "or"
    /\ ret.kind = "inst"
    /\ inst[ret.self].cls = "frozendict"
    /\ inst[ret.self].hash.tag = "int"
    /\ inst[ret.val].hash = None
    /\ Source_of(ret.val) # Source_of(ret.self)

\* C9: cls(iterable, **kwargs) holds one entry per distinct key; a key
\* named in kwargs has the kwargs value, any other key the value of the
\* last pair of the source that carries it; fromkeys maps each distinct
\* key to the one value.
C9_ConstructionPriority ==
    /\ ret.op = "new" =>
          LET P == IF ret.other.kind = "pairs" THEN args.pairs ELSE dicts[ret.other.id]
              K == args.kwargs
              S == Source_of(ret.val)
              last(Q, k) == Q[CHOOSE j \in 1..Len(Q) :
                                 /\ Q[j][1] = k
                                 /\ \A n \in (j + 1)..Len(Q) : Q[n][1] # k][2]
          IN  /\ KeySet(S) = KeySet(P) \cup KeySet(K)
              /\ Len(S) = Cardinality(KeySet(S))
              /\ \A k \in KeySet(S) :
                    dict_getitem(S, k) = IF k \in KeySet(K) THEN last(K, k) ELSE last(P, k)
              /\ (P = <<>> /\ K = <<>>) => S = <<>>
    /\ ret.op = "fromkeys" =>
          LET S == Source_of(ret.val)
          IN  /\ KeySet(S) = KeySet(args.pairs)
              /\ Len(S) = Cardinality(KeySet(S))
              /\ \A j \in 1..Len(S) : S[j][2] = IntVal(args.value)

C9_Witness ==
    /\ ret.op = "new"
    /\ ret.other.kind = "pairs"
    /\ Len(args.pairs) = Cardinality({"first", "last"})
    /\ args.pairs[1][1] = args.pairs[Len(args.pairs)][1]
    /\ args.pairs[1][2] # args.pairs[Len(args.pairs)][2]
    /\ args.kwargs # <<>>
    /\ Len(Source_of(ret.val)) = Cardinality(Keys)

\* C5: deepcopy of a frozendict leaves its _hash set; it returns the
\* instance itself exactly when _hash is an int, and otherwise a new
\* frozendict with its own dict, equal in content, whose list values are
\* other objects than those of the original.
C5_DeepCopy ==
    (ret.op = "deepcopy" /\ inst[ret.self].cls = "frozendict") =>
        /\ inst[ret.self].hash # None
        /\ inst[ret.self].hash = get_hash_value_or_unhashable_type(Source_of(ret.self))
        /\ ret.kind = "inst"
        /\ ret.val = ret.self <=> inst[ret.self].hash.tag = "int"
        /\ ret.val # ret.self =>
              /\ inst[ret.val].cls = "frozendict"
              /\ inst[ret.val].source # inst[ret.self].source
              /\ dict_eq(Source_of(ret.self), Source_of(ret.val))
              /\ dict_keys(Source_of(ret.self)) = dict_keys(Source_of(ret.val))
              /\ list_refs(Source_of(ret.self)) \cap list_refs(Source_of(ret.val)) = {}

C5_Witness ==
    /\ ret.op = "deepcopy"
    /\ inst[ret.self].cls = "frozendict"
    /\ ret.val # ret.self
    /\ inst[ret.self].hash.tag = "str"
    /\ list_refs(Source_of(ret.val)) # {}
    /\ inst[ret.val].hash = None

\* C8: with hash() and deepcopy() of one frozendict running in several
\* threads, _hash is None or the value computed from the entries, every
\* thread is about to store that same value, and every finished hash()
\* returned that int or raised TypeError with that type name.
C8_ConcurrentHash ==
    /\ \A i \in 1..Len(inst) :
          inst[i].hash \in {None, get_hash_value_or_unhashable_type(Source_of(i))}
    /\ \A t \in Threads :
          pc[t].at \in {"hash_store", "deepcopy_store"}
             => loc[t] = get_hash_value_or_unhashable_type(Source_of(Self(t)))
    /\ \A t \in Threads :
          (At(t, "done") /\ tret[t].op = "hash")
             => /\ tret[t].val = get_hash_value_or_unhashable_type(Source_of(tret[t].self))
                /\ tret[t].val = inst[tret[t].self].hash
                /\ tret[t].kind = IF tret[t].val.tag = "int" THEN "value" ELSE "TypeError"
    /\ \A t, u \in Threads :
          (At(t, "done") /\ At(u, "done") /\ tret[t].op = "hash" /\ tret[u].op = "hash"
             /\ tret[t].self = tret[u].self)
             => tret[t] = tret[u]

C8_Witness ==
    \E t, u \in Threads :
        /\ t # u
        /\ At(t, "done")
        /\ tret[t].op = "hash"
        /\ tret[t].kind = "value"
        /\ At(u, "hash_store")
        /\ Self(u) = tret[t].self

\* C10: no instance uses a dict of the caller as its entries and no two
\* instances use the same dict, so that whatever the caller sets in or
\* deletes from a mapping an instance was built or united with, the
\* instance holds the items it was built with.
C10_OwnStore ==
    \A i \in 1..Len(inst) :
        /\ inst[i].source \notin ext
        /\ \A j \in 1..Len(inst) : j # i => inst[j].source # inst[i].source
        /\ Source_of(i) = born[i]

C10_Witness ==
    /\ ret.op = "caller_delitem"
    /\ dicts[ret.other.id] = <<>>
    /\ \E i, j \in 1..Len(inst) :
          /\ i # j
          /\ Source_of(i) # <<>>
          /\ Source_of(i) = Source_of(j)

====
